---- MODULE Spec2Model ----
(***************************************************************************)
(* Topic-ticket store of the discovery protocol (p2p/discover/ticket.go):  *)
(* tickets, their per-topic time buckets, the index of tickets by node,    *)
(* the radius control loop and the minimum-radius estimator.               *)
(*                                                                         *)
(* Scaling.  Times are counted in ticks, Second ticks to the second and    *)
(* SecPerMinute seconds to the minute.  uint64 values are kept in          *)
(* RadiusBits (radius, prefixes) or TimeBits (times) bits, with the        *)
(* wrap-around of the source.  float64 values are kept in fixed point with *)
(* FixScale steps per unit, rounded down; the conversion uint64 -> float64 *)
(* rounds to MantBits significant bits, as the 53 bit mantissa of the      *)
(* source does for 64 bit values.                                          *)
(***************************************************************************)
EXTENDS Integers, Sequences, FiniteSets, TLC

\* ------------------------------------------------------------ bounds
\* Ticks per second (time resolution of the model; 10^9 in the source) and
\* seconds per minute (60 in the source).
Second == 2
SecPerMinute == 2
\* Width of the radius and prefix values (64 in the source).
RadiusBits == 10
\* Fixed-point steps per unit of a float64 value.
FixScale == 16
\* Tickets created by pongToTicket in one run.
MaxTickets == 2
\* adjustMinRadius calls in one run.
MaxMinRadCalls == 1
\* A ticket's refCnt is followed down to -MaxUnderflow.
MaxUnderflow == 2
\* Adjust steps in one run of SpecRadius.
MaxObs == 8
\* adjustMinRadius calls followed after the sample count has reached
\* minRadAverage, in SpecDecay.
MaxDecay == 3
\* Width of a pong's wait periods (32 in the source).
WaitBits == 9

\* ------------------------------------------------------------ constants
Minute == SecPerMinute * Second
ticketGroupTime == Minute
timeWindow == 30
keepTicketConst == Minute * 20
keepTicketExp == Minute * 20
maxRadius == 2^RadiusBits - 1
minRadAverage == 1024
targetWaitTime == Minute * 10

\* Width of the time values (64 in the source): wide enough for every time
\* of the model plus the largest retention threshold.
TimeBits == 12
TimeMod == 2^TimeBits
\* Significant bits of a float64 relative to the integer width (53 of 64).
MantBits == RadiusBits - 2

\* ------------------------------------------------------------ inputs
Topics == {"A", "B"}
Nodes == {"n1", "n2", "n3"}
\* binary.BigEndian.Uint64(id[0:8]) of each node and of each topic's hash.
NodePrefix ==
    [n \in Nodes |-> IF n = "n1" THEN 340 ELSE IF n = "n2" THEN 85 ELSE maxRadius - 341]
TopicHash == [t \in Topics |-> IF t = "A" THEN 341 ELSE 84]
\* The pongs a registrar may answer with: the node, the topics asked for and
\* the wait period (in seconds) of each.
Pongs ==
    { [node |-> "n1", topics |-> <<"A", "B">>,
       wps |-> <<targetWaitTime \div Second, targetWaitTime \div Second + 1>>],
      [node |-> "n2", topics |-> <<"B", "A">>,
       wps |-> <<1, keepTicketConst \div Second + 1>>],
      [node |-> "n2", topics |-> <<"B">>,
       wps |-> <<(keepTicketConst + 10 * keepTicketExp) \div Second>>] }
\* The lookups reported to adjustMinRadius: the target (a topic's hash) and
\* the node found.
Lookups == {[target |-> "A", found |-> "n2"]}
\* The observations of SpecRadius: wait periods (in ticks) of tickets of
\* node n1 for topic A.
ObsWaits == {1, targetWaitTime, 2 * targetWaitTime}
\* Local time passed to an entry point, relative to the previous call.
TimeSteps == {0, targetWaitTime, 2 * targetWaitTime}
\* The first local time: a monotonic clock's reading right after its start.
StartTime == Minute * 0
\* The local times passed to entry points span two target wait times.
MaxTime == StartTime + 2 * targetWaitTime
\* The inputs of SpecPong: local times (in ticks) and wait periods (in
\* seconds) of a pong for two topics.
PongTimes == 0..(2 * Second + 1)
PongWaits == [1..2 -> 0..2]
\* The observations of SpecNear: wait periods (in ticks) at and just below
\* targetWaitTime.
NearWaits == {targetWaitTime - 1, targetWaitTime}
\* The inputs of SpecMinRad: XOR distances of a lookup target and the node
\* found, below, at and above the sixteenth of maxRadius / 2.
Dists == {0, 1, 3, 2^(RadiusBits - 5) - 1, 2^(RadiusBits - 5), 2^(RadiusBits - 5) + 1,
          2^(RadiusBits - 2) + 1, maxRadius}
\* Values of rand.ExpFloat64() after the cap at 10.
RndValues == {0, 10}
\* uint64(f) for a float64 f = 2^64 is implementation-dependent in Go:
\* 2^63 on amd64, 2^64-1 on arm64.
Uint64OfTwoTo64 == {2^(RadiusBits - 1), maxRadius}

NoTicket == 0
NoDist == 0 - 1
NoTopic == [tracked |-> FALSE]

VARIABLES
    tickets,           \* heap of ticket objects, by creation order
    topics,            \* ticketStore.topics
    nodes,             \* ticketStore.nodes (NoTicket: no entry)
    lastGroupFetched,  \* ticketStore.lastGroupFetched
    minRadSum,         \* ticketStore.minRadSum (fixed point)
    minRadCnt,         \* ticketStore.minRadCnt
    minRadius,         \* ticketStore.minRadius
    clock,             \* the latest local time passed to an entry point
    scheduled,         \* history: the ticketRefs add has scheduled
    returned,          \* history: how often fetch returned each ticketRef
    nObs,              \* history: adjust steps taken by Observe, and
                       \* adjustMinRadius calls at the cap in SpecDecay
    fetched,           \* history: the call made last was fetch
    lastDist           \* history: the distance of the last adjustMinRadius

vars == <<tickets, topics, nodes, lastGroupFetched, minRadSum, minRadCnt,
          minRadius, clock, scheduled, returned, nObs, fetched, lastDist>>

store == <<topics, nodes, lastGroupFetched, minRadSum, minRadCnt, minRadius>>

\* ------------------------------------------------------------ arithmetic
RECURSIVE Xor(_, _)
Xor(a, b) ==
    IF a = 0 THEN b
    ELSE IF b = 0 THEN a
    ELSE (((a % 2) + (b % 2)) % 2) + 2 * Xor(a \div 2, b \div 2)

RECURSIVE BitLen(_)
BitLen(x) == IF x = 0 THEN 0 ELSE 1 + BitLen(x \div 2)

\* float64(x) of an unsigned integer: round to nearest, ties to even.
ToFloat64(x) ==
    IF BitLen(x) <= MantBits THEN x
    ELSE LET q == 2^(BitLen(x) - MantBits)
             m == x \div q
             rem == x % q
         IN  IF 2 * rem > q \/ (2 * rem = q /\ m % 2 = 1)
             THEN (m + 1) * q
             ELSE m * q

\* A float64 value v is held as the integer v * FixScale.
Fix(x) == x * FixScale

\* uint64(f) of a float64 in fixed point; ovf is what the build yields when
\* f is 2^64, which no uint64 holds.
ToUint64(f, ovf) ==
    IF f \div FixScale > maxRadius THEN ovf ELSE f \div FixScale

\* ------------------------------------------------------------ tickets
\* Faulty variant of pongToTicket: the wait periods are not moved to the
\* local time.
pongToTicket_abs(localTime, tps, node, wps) ==
    [ topics    |-> tps,
      regTime   |-> [i \in 1..Len(wps) |-> (wps[i] * Second) % TimeMod],
      serial    |-> 0,
      issueTime |-> localTime,
      node      |-> node,
      refCnt    |-> 0,
      pong      |-> wps ]

\* pongToTicket: the ticket built from a pong's wait periods; the encoded
\* pong it keeps (p.rawData) is kept as the wait periods it carries.
pongToTicket(localTime, tps, node, wps) ==
    [ topics    |-> tps,
      regTime   |-> [i \in 1..Len(wps) |->
                        (localTime + wps[i] * Second) % TimeMod],
      serial    |-> 0,
      issueTime |-> localTime,
      node      |-> node,
      refCnt    |-> 0,
      pong      |-> wps ]

\* ticketToPong: the pong built from a ticket.  rlpHash(t.topics) is kept as
\* the list it hashes.
ticketToPong(t) ==
    [ Expiration   |-> t.issueTime \div Second,
      TopicHash    |-> t.topics,
      TicketSerial |-> t.serial,
      WaitPeriods  |-> [i \in 1..Len(t.regTime) |->
                           (t.regTime[i] \div Second) % 2^WaitBits] ]

\* Faulty variant of newtopicTickets: filteredRadius starts above
\* float64(maxRadius).
newtopicTickets_high(register) ==
    [ tracked        |-> TRUE,
      radius         |-> maxRadius,
      filteredRadius |-> Fix(ToFloat64(maxRadius)) + 1,
      converged      |-> FALSE,
      register       |-> register,
      time           |-> <<>> ]

\* newtopicTickets
newtopicTickets(register) ==
    [ tracked        |-> TRUE,
      radius         |-> maxRadius,
      filteredRadius |-> Fix(ToFloat64(maxRadius)),
      converged      |-> FALSE,
      register       |-> register,
      time           |-> <<>> ]

\* ------------------------------------------------------------ topicTickets
\* What nextTarget yields when rand.Int63n is called with n <= 0.
Panic == <<0 - 1, 0 - 1>>

\* nextTarget: the hashes it can return, as <<leading 64 bits, the other
\* bytes>>; rnd = uint64(rand.Int63n(int64(r.radius/2))) * 2.
nextTargets(r, topic) ==
    IF r.radius \div 2 <= 0 THEN {Panic}
    ELSE {<<Xor(TopicHash[topic], 2 * n), 0>> : n \in 0..(r.radius \div 2 - 1)}

\* Faulty variant of isInRadius: a peer at distance radius counts as inside.
isInRadius_incl(r, topic, node) ==
    Xor(NodePrefix[node], TopicHash[topic]) <= r.radius

\* isInRadius: the node's prefix is closer to the topic's hash than radius.
isInRadius(r, topic, node) ==
    Xor(NodePrefix[node], TopicHash[topic]) < r.radius

\* Faulty variant of floorRadius: the floor is not applied.
floorRadius_none(radius, minRad) == radius

\* if r.radius < minRadius { r.radius = minRadius }
floorRadius(radius, minRad) == IF radius < minRad THEN minRad ELSE radius

\* Faulty variant of adjust: the proposed radius is adopted without the
\* ceiling at maxRadius.
adjust_nopin(r, localTime, regT, minRad, ovf) ==
    LET wait == (regT - localTime) % TimeMod
        num == 2 * (wait - targetWaitTime)
        clamped == IF num > targetWaitTime THEN targetWaitTime
                   ELSE IF num < -targetWaitTime THEN -targetWaitTime ELSE num
        den == targetWaitTime * (IF r.converged THEN 100 ELSE 10)
        radius == (Fix(ToFloat64(r.radius)) * (den + clamped)) \div den
        newRadius == floorRadius(radius \div FixScale, minRad)
    IN  IF r.converged THEN [r EXCEPT !.radius = newRadius]
        ELSE IF radius >= r.filteredRadius
             THEN [r EXCEPT !.radius = newRadius, !.converged = TRUE]
             ELSE [r EXCEPT !.radius = newRadius,
                            !.filteredRadius = r.filteredRadius
                                + (((radius - r.filteredRadius) * 5) \div 100)]

\* Faulty variant of adjust: the learning rate stays 0.1 after convergence.
adjust_fast(r, localTime, regT, minRad, ovf) ==
    LET wait == (regT - localTime) % TimeMod
        num == 2 * (wait - targetWaitTime)
        clamped == IF num > targetWaitTime THEN targetWaitTime
                   ELSE IF num < -targetWaitTime THEN -targetWaitTime ELSE num
        den == targetWaitTime * 10
        radius == (Fix(ToFloat64(r.radius)) * (den + clamped)) \div den
        pinned == radius > Fix(ToFloat64(maxRadius))
        newRadius == IF pinned THEN maxRadius
                     ELSE floorRadius(ToUint64(radius, ovf), minRad)
        radiusF == IF pinned THEN Fix(ToFloat64(maxRadius)) ELSE radius
    IN  IF r.converged THEN [r EXCEPT !.radius = newRadius]
        ELSE IF radiusF >= r.filteredRadius
             THEN [r EXCEPT !.radius = newRadius, !.converged = TRUE]
             ELSE [r EXCEPT !.radius = newRadius,
                            !.filteredRadius = r.filteredRadius
                                + (((radiusF - r.filteredRadius) * 5) \div 100)]

\* adjust: one step of the radius control loop for topicTickets r, for a
\* slot usable at regT.  The float64 local "radius" is radiusF.
adjust(r, localTime, regT, minRad, ovf) ==
    LET wait == (regT - localTime) % TimeMod
        num == 2 * (wait - targetWaitTime)
        clamped == IF num > targetWaitTime THEN targetWaitTime
                   ELSE IF num < -targetWaitTime THEN -targetWaitTime
                   ELSE num
        den == targetWaitTime * (IF r.converged THEN 100 ELSE 10)
        radius == (Fix(ToFloat64(r.radius)) * (den + clamped)) \div den
        pinned == radius > Fix(ToFloat64(maxRadius))
        conv == ToUint64(radius, ovf)
        newRadius == IF pinned THEN maxRadius
                     ELSE floorRadius(conv, minRad)
        radiusF == IF pinned THEN Fix(ToFloat64(maxRadius)) ELSE radius
    IN  IF r.converged
        THEN [r EXCEPT !.radius = newRadius]
        ELSE IF radiusF >= r.filteredRadius
        THEN [r EXCEPT !.radius = newRadius, !.converged = TRUE]
        ELSE [r EXCEPT !.radius = newRadius,
                       !.filteredRadius =
                           r.filteredRadius
                           + (((radiusF - r.filteredRadius) * 5) \div 100)]

\* m[g] of a Go map of slices: nil (the empty list) for a missing key.
Bucket(m, g) == IF g \in DOMAIN m THEN m[g] ELSE <<>>

\* Faulty variant of SetBucket: the list is stored under the next bucket.
SetBucket_next(m, g, list) ==
    [h \in DOMAIN m \cup {g + 1} |-> IF h = g + 1 THEN list ELSE m[h]]

\* m[g] = list
SetBucket(m, g, list) ==
    [h \in DOMAIN m \cup {g} |-> IF h = g THEN list ELSE m[h]]

\* delete(m, g)
DeleteBucket(m, g) == [h \in DOMAIN m \ {g} |-> m[h]]

\* ------------------------------------------------------------ ticketStore
\* Faulty variant of keepTicket: a wait equal to the threshold is kept.
keepTicket_incl(wait, rnd) == wait <= keepTicketConst + keepTicketExp * rnd

\* The retention test of add:
\* float64(wait) < float64(keepTicketConst) + float64(keepTicketExp) * rnd
keepTicket(wait, rnd) == wait < keepTicketConst + keepTicketExp * rnd

\* Faulty variant of addSlots: a topic without registration gets no adjust
\* step.
RECURSIVE addSlots_skip(_, _, _, _, _, _, _)
addSlots_skip(i, k, t, localTime, rnds, ovf, st) ==
    IF i > Len(t.topics) THEN st
    ELSE
    LET topic == t.topics[i]
        tt == st.tps[topic]
    IN  IF ~(tt.tracked /\ isInRadius(tt, topic, t.node))
        THEN addSlots_skip(i + 1, k, t, localTime, rnds, ovf, st)
        ELSE
        LET tt1 == IF tt.register
                   THEN adjust(tt, localTime, t.regTime[i], minRadius, ovf)
                   ELSE tt
            wait == (t.regTime[i] - localTime) % TimeMod
            keep == tt1.converged /\ tt1.register /\ keepTicket(wait, rnds[i])
            tgroup == t.regTime[i] \div ticketGroupTime
            tt2 == IF keep
                   THEN [tt1 EXCEPT !.time =
                            SetBucket(tt1.time, tgroup,
                                      Append(Bucket(tt1.time, tgroup), <<k, i>>))]
                   ELSE tt1
        IN  addSlots_skip(i + 1, k, t, localTime, rnds, ovf,
                     [ tps      |-> [st.tps EXCEPT ![topic] = tt2],
                       refCnt   |-> IF keep THEN st.refCnt + 1 ELSE st.refCnt,
                       sched    |-> IF keep THEN st.sched \cup {<<k, i>>} ELSE st.sched,
                       adjusted |-> st.adjusted \cup {i} ])

\* The loop of add over the ticket's topic slots i..Len(t.topics).  st holds
\* the topics, the ticket's refCnt, the refs scheduled and the slots adjusted.
RECURSIVE addSlots(_, _, _, _, _, _, _)
addSlots(i, k, t, localTime, rnds, ovf, st) ==
    IF i > Len(t.topics) THEN st
    ELSE
    LET topic == t.topics[i]
        tt == st.tps[topic]
    IN  IF ~(tt.tracked /\ isInRadius(tt, topic, t.node))
        THEN addSlots(i + 1, k, t, localTime, rnds, ovf, st)
        ELSE
        LET tt1 == adjust(tt, localTime, t.regTime[i], minRadius, ovf)
            wait == (t.regTime[i] - localTime) % TimeMod
            keep == tt1.converged /\ tt1.register /\ keepTicket(wait, rnds[i])
            tgroup == t.regTime[i] \div ticketGroupTime
            tt2 == IF keep
                   THEN [tt1 EXCEPT !.time =
                            SetBucket(tt1.time, tgroup,
                                      Append(Bucket(tt1.time, tgroup), <<k, i>>))]
                   ELSE tt1
        IN  addSlots(i + 1, k, t, localTime, rnds, ovf,
                     [ tps      |-> [st.tps EXCEPT ![topic] = tt2],
                       refCnt   |-> IF keep THEN st.refCnt + 1 ELSE st.refCnt,
                       sched    |-> IF keep THEN st.sched \cup {<<k, i>>} ELSE st.sched,
                       adjusted |-> st.adjusted \cup {i} ])

\* ticketsInWindow(t) at time now: the summed lengths of the topic's buckets
\* ltGroup .. ltGroup + timeWindow - 1.
RECURSIVE sumBuckets(_, _, _)
sumBuckets(m, g, last) ==
    IF g >= last THEN 0 ELSE Len(Bucket(m, g)) + sumBuckets(m, g + 1, last)

ticketsInWindow(t, now) ==
    LET ltGroup == now \div ticketGroupTime
    IN  sumBuckets(topics[t].time, ltGroup, ltGroup + timeWindow)

\* Faulty variant of hasTicket: add never sees the ticket held for the node.
hasTicket_never(id) == FALSE

\* s.nodes[id] != nil
hasTicket(id) == nodes[id] # NoTicket

\* add, past the check for a ticket already held for the node.
addNew(k, t, localTime, rnds, ovf) ==
    \E st \in {addSlots(1, k, t, localTime, rnds, ovf,
                       [tps |-> topics, refCnt |-> t.refCnt, sched |-> {}, adjusted |-> {}])} :
        /\ lastGroupFetched' = IF lastGroupFetched = 0
                               THEN localTime \div ticketGroupTime
                               ELSE lastGroupFetched
        /\ topics' = st.tps
        /\ tickets' = Append(tickets, [t EXCEPT !.refCnt = st.refCnt])
        /\ nodes' = IF st.refCnt > 0 THEN [nodes EXCEPT ![t.node] = k] ELSE nodes
        /\ scheduled' = scheduled \cup st.sched

\* add(localTime, t); the heap holds t as its k-th ticket from now on.
add(k, t, localTime, rnds, ovf) ==
    IF hasTicket(t.node)
    THEN /\ tickets' = Append(tickets, t)
         /\ UNCHANGED <<topics, nodes, lastGroupFetched, scheduled>>
    ELSE addNew(k, t, localTime, rnds, ovf)

\* list = append(list[:i], list[i+1:]...): the elements after i move one place
\* down inside the backing array arr, whose last place keeps its old value.
RemoveAt(arr, n, i) ==
    [j \in 1..Len(arr) |-> IF j >= i /\ j < n THEN arr[j + 1] ELSE arr[j]]

\* t.t.regTime[t.idx] <= localTime
isDue(regT, localTime) == regT <= localTime

\* Faulty variant of unindex: the nodes entry is kept at refCnt 0.
unindex_keep(nds, node, refCnt) == nds

\* if t.t.refCnt == 0 { delete(s.nodes, t.t.node.ID) }
unindex(nds, node, refCnt) ==
    IF refCnt = 0 THEN [nds EXCEPT ![node] = NoTicket] ELSE nds

\* if g != ltGroup { delete(tt.time, g) }
gcBucket(m, g, ltGroup) == IF g # ltGroup THEN DeleteBucket(m, g) ELSE m

\* The scan of one bucket by fetch: arr is the backing array of the slice
\* list, n is len(list), i the position.  st holds the tickets, the nodes
\* index and the refs returned so far.
RECURSIVE scanList(_, _, _, _, _)
scanList(arr, n, i, localTime, st) ==
    IF i > n THEN [arr |-> arr, n |-> n, st |-> st]
    ELSE
    LET t == arr[i]
        k == t[1]
    IN  IF isDue(st.tks[k].regTime[t[2]], localTime)
        THEN LET cnt == st.tks[k].refCnt - 1
             IN  scanList(RemoveAt(arr, n, i), n - 1, i, localTime,
                          [ tks |-> [st.tks EXCEPT ![k].refCnt = cnt],
                            nds |-> unindex(st.nds, st.tks[k].node, cnt),
                            res |-> Append(st.res, t) ])
        ELSE scanList(arr, n, i + 1, localTime, st)

\* The buckets g..ltGroup of one topic's time map m.  The scan works on the
\* local slice only: the map keeps the bucket's old length over the shifted
\* backing array, and buckets before ltGroup are deleted.
RECURSIVE fetchGroups(_, _, _, _, _)
fetchGroups(m, g, ltGroup, localTime, st) ==
    IF g > ltGroup THEN [time |-> m, st |-> st]
    ELSE
    LET list == Bucket(m, g)
        sc == scanList(list, Len(list), 1, localTime, st)
        m1 == IF g \in DOMAIN m THEN SetBucket(m, g, sc.arr) ELSE m
        m2 == gcBucket(m1, g, ltGroup)
    IN  fetchGroups(m2, g + 1, ltGroup, localTime, sc.st)

\* The loop of fetch over the tracked topics, in the order the map yields them.
RECURSIVE fetchTopics(_, _, _, _, _)
fetchTopics(order, i, ltGroup, localTime, fs) ==
    IF i > Len(order) THEN fs
    ELSE
    LET topic == order[i]
        fg == fetchGroups(fs.tps[topic].time, lastGroupFetched, ltGroup,
                          localTime, fs.st)
    IN  fetchTopics(order, i + 1, ltGroup, localTime,
                    [ tps |-> [fs.tps EXCEPT ![topic].time = fg.time],
                      st  |-> fg.st ])

\* The result of fetch(localTime)
fetchResult(order, localTime) ==
    fetchTopics(order, 1, localTime \div ticketGroupTime, localTime,
                [ tps |-> topics,
                  st  |-> [tks |-> tickets, nds |-> nodes, res |-> <<>>] ])

\* How often ref occurs in the list res.
Count(res, ref) == Cardinality({i \in 1..Len(res) : res[i] = ref})

Returned(ref) == IF ref \in DOMAIN returned THEN returned[ref] ELSE 0

\* fetch(localTime)
fetch(order, localTime) ==
    \E fs \in {fetchResult(order, localTime)} :
    LET refs == {fs.st.res[i] : i \in 1..Len(fs.st.res)}
    IN  /\ \A k \in 1..Len(tickets) : fs.st.tks[k].refCnt >= -MaxUnderflow
        /\ topics' = fs.tps
        /\ tickets' = fs.st.tks
        /\ nodes' = fs.st.nds
        /\ lastGroupFetched' = localTime \div ticketGroupTime
        /\ returned' = [r \in DOMAIN returned \cup refs |->
                            Returned(r) + Count(fs.st.res, r)]


\* getNodeTicket(id)
getNodeTicket(id) == nodes[id]

\* Faulty variant of adjustMinRadius: past minRadAverage samples the sum is
\* not decayed.
adjustMinRadius_nodecay(dist) ==
    LET raw == Fix(ToFloat64(dist)) * 16
        cap == Fix(ToFloat64(maxRadius \div 2))
        mrAdjust == IF raw > cap THEN cap ELSE raw
        cnt == IF minRadCnt < minRadAverage THEN minRadCnt + 1 ELSE minRadCnt
    IN  /\ minRadCnt' = cnt
        /\ minRadSum' = minRadSum + mrAdjust
        /\ minRadius' = ToUint64((minRadSum + mrAdjust) \div cnt, maxRadius)

\* adjustMinRadius(target, found), with dist the XOR of the two prefixes
adjustMinRadius(dist) ==
    LET raw == Fix(ToFloat64(dist)) * 16
        cap == Fix(ToFloat64(maxRadius \div 2))
        mrAdjust == IF raw > cap THEN cap ELSE raw
        cnt == IF minRadCnt < minRadAverage THEN minRadCnt + 1 ELSE minRadCnt
        sum == IF minRadCnt < minRadAverage
               THEN minRadSum
               ELSE minRadSum - (minRadSum \div minRadAverage)
    IN  /\ minRadCnt' = cnt
        /\ minRadSum' = sum + mrAdjust
        /\ minRadius' = ToUint64((sum + mrAdjust) \div cnt, maxRadius)

\* Faulty variant of addTopic: a tracked topic is replaced by a fresh one.
addTopic_always(t, register) ==
    topics' = [topics EXCEPT ![t] = newtopicTickets(register)]

\* addTopic(t, register)
addTopic(t, register) ==
    topics' = IF topics[t].tracked THEN topics
              ELSE [topics EXCEPT ![t] = newtopicTickets(register)]

TypeOK ==
    /\ clock \in StartTime..MaxTime
    /\ fetched \in BOOLEAN
    /\ Len(tickets) <= MaxTickets
    /\ \A n \in Nodes : nodes[n] \in 0..Len(tickets)
    /\ \A t \in Topics : topics[t].tracked => topics[t].radius \in 0..maxRadius

Init ==
    /\ tickets = <<>>
    /\ topics = [t \in Topics |-> NoTopic]
    /\ nodes = [n \in Nodes |-> NoTicket]
    /\ lastGroupFetched = 0
    /\ minRadSum = 0
    /\ minRadCnt = 0
    /\ minRadius = 0
    /\ clock = StartTime
    /\ scheduled = {}
    /\ returned = <<>>
    /\ nObs = 0
    /\ fetched = FALSE
    /\ lastDist = NoDist

\* ------------------------------------------------------------ actions
\* Every permutation of the tracked topics: the order of a range over a map.
TrackedOrders ==
    LET tr == {t \in Topics : topics[t].tracked}
    IN  {o \in [1..Cardinality(tr) -> tr] : \A i, j \in DOMAIN o : i # j => o[i] # o[j]}

AddTopic ==
    \E t \in Topics, register \in BOOLEAN :
        /\ addTopic(t, register)
        /\ fetched' = FALSE
        /\ UNCHANGED <<tickets, nodes, lastGroupFetched, minRadSum, minRadCnt,
                       minRadius, clock, scheduled, returned, nObs, lastDist>>

\* add(localTime, t) for a ticket t that pongToTicket(localTime, ...) has just
\* built from a pong; the heap holds it as its next ticket.
Add ==
    \E p \in Pongs, step \in TimeSteps, ovf \in Uint64OfTwoTo64 :
    \E rnds \in [1..Len(p.topics) -> RndValues] :
        /\ Len(tickets) < MaxTickets
        /\ clock + step <= MaxTime
        /\ clock' = clock + step
        /\ add(Len(tickets) + 1,
               pongToTicket(clock + step, p.topics, p.node, p.wps),
               clock + step, rnds, ovf)
        /\ fetched' = FALSE
        /\ UNCHANGED <<minRadSum, minRadCnt, minRadius, returned, nObs, lastDist>>

Fetch ==
    \E step \in TimeSteps, order \in TrackedOrders :
        /\ clock + step <= MaxTime
        /\ clock' = clock + step
        /\ fetch(order, clock + step)
        /\ fetched' = TRUE
        /\ UNCHANGED <<minRadSum, minRadCnt, minRadius, scheduled, nObs, lastDist>>

AdjustMinRadius ==
    \E l \in Lookups :
        /\ minRadCnt < MaxMinRadCalls
        /\ adjustMinRadius(Xor(TopicHash[l.target], NodePrefix[l.found]))
        /\ lastDist' = Xor(TopicHash[l.target], NodePrefix[l.found])
        /\ fetched' = FALSE
        /\ UNCHANGED <<tickets, topics, nodes, lastGroupFetched, clock,
                       scheduled, returned, nObs>>

Next ==
    \/ AddTopic
    \/ Add
    \/ Fetch
    \/ AdjustMinRadius

Spec == Init /\ [][Next]_vars

\* ------------------------------------------------------------ pongs
\* The conversion of pongs alone: each step is a pongToTicket call at a local
\* time not before the previous one; the store is not passed to it.
PongToTicket ==
    \E localTime \in PongTimes, node \in Nodes, wps \in PongWaits :
        /\ Len(tickets) < MaxTickets
        /\ localTime >= clock
        /\ clock' = localTime
        /\ tickets' = Append(tickets, pongToTicket(localTime, <<"A", "B">>, node, wps))
        /\ fetched' = FALSE
        /\ UNCHANGED <<topics, nodes, lastGroupFetched, minRadSum, minRadCnt,
                       minRadius, scheduled, returned, nObs, lastDist>>

NextPong == PongToTicket

SpecPong == Init /\ [][NextPong]_vars

\* ------------------------------------------------------------ minRadius
\* The minimum-radius estimator alone, fed with one distance over and over.
AdjustSame ==
    \E dist \in Dists :
        /\ lastDist \in {NoDist, dist}
        /\ adjustMinRadius(dist)
        /\ lastDist' = dist
        /\ fetched' = FALSE
        /\ UNCHANGED <<tickets, topics, nodes, lastGroupFetched, clock,
                       scheduled, returned, nObs>>

NextMinRad == AdjustSame

SpecMinRad == Init /\ [][NextMinRad]_vars

\* ------------------------------------------------------------ radius loop
\* The radius control loop alone: topic A is tracked, and each step is the
\* adjust call add makes for a ticket of node n1 whose slot for A waits
\* wait ticks (tt.adjust(localTime, ticketRef{t, i}, s.minRadius)); tickets
\* and buckets are left out.
InitRadius ==
    /\ tickets = <<>>
    /\ topics = [t \in Topics |-> IF t = "A" THEN newtopicTickets(TRUE) ELSE NoTopic]
    /\ nodes = [n \in Nodes |-> NoTicket]
    /\ lastGroupFetched = 0
    /\ minRadSum = 0
    /\ minRadCnt = 0
    /\ minRadius = 0
    /\ clock = StartTime
    /\ scheduled = {}
    /\ returned = <<>>
    /\ nObs = 0
    /\ fetched = FALSE
    /\ lastDist = NoDist

ObserveOn(t) ==
    \E wait \in ObsWaits, ovf \in Uint64OfTwoTo64 :
        /\ nObs < MaxObs
        /\ topics[t].tracked
        /\ isInRadius(topics[t], t, "n1")
        /\ topics' = [topics EXCEPT
                        ![t] = adjust(topics[t], clock, clock + wait, minRadius, ovf)]
        /\ nObs' = nObs + 1
        /\ fetched' = FALSE
        /\ UNCHANGED <<tickets, nodes, lastGroupFetched, minRadSum, minRadCnt,
                       minRadius, clock, scheduled, returned, lastDist>>

Observe == ObserveOn("A")

NextRadius ==
    \/ Observe
    \/ AdjustMinRadius

SpecRadius == InitRadius /\ [][NextRadius]_vars

\* The radius loop under steady observation: every step is an adjust call for
\* a ticket of node n1, in the radius of topic A, whose slot waits about
\* targetWaitTime; the loop is followed until the topic converges, however
\* many steps that takes.
ObserveNear ==
    \E wait \in NearWaits, ovf \in Uint64OfTwoTo64 :
        /\ topics["A"].tracked
        /\ ~topics["A"].converged
        /\ isInRadius(topics["A"], "A", "n1")
        /\ topics' = [topics EXCEPT
                        !["A"] = adjust(topics["A"], clock, clock + wait, minRadius, ovf)]
        /\ fetched' = FALSE
        /\ UNCHANGED <<tickets, nodes, lastGroupFetched, minRadSum, minRadCnt,
                       minRadius, clock, scheduled, returned, nObs, lastDist>>

NextNear == ObserveNear

SpecNear == InitRadius /\ [][NextNear]_vars

\* ------------------------------------------------------------ claims
\* Helpers of the claims.
TicketIds == 1..Len(tickets)
Indexed(k) == getNodeTicket(tickets[k].node) = k
RegTimeOf(ref) == tickets[ref[1]].regTime[ref[2]]
TopicOf(ref) == tickets[ref[1]].topics[ref[2]]
SlotsOf(k) == {ref \in scheduled : ref[1] = k}
Outstanding(k) == {ref \in SlotsOf(k) : Returned(ref) = 0}
\* A step of add is the one step that puts a ticket on the heap; the new
\* ticket is the last one.
AddStep == Len(tickets') = Len(tickets) + 1
NewTicket == tickets'[Len(tickets')]

\* C1: every ticket passed to add is the entry of the nodes index under its
\* registrar's NodeID if and only if its refCnt is greater than 0.
C1_RefCntIndex ==
    \A k \in TicketIds : Indexed(k) <=> tickets[k].refCnt > 0

\* A ticket is held with a positive refCnt while another one, whose slot
\* fetch has returned, has left the index.
C1_Witness ==
    \E k, j \in TicketIds :
        /\ tickets[k].refCnt > 0 /\ Indexed(k)
        /\ tickets[j].refCnt = 0 /\ ~Indexed(j)
        /\ \E ref \in SlotsOf(j) : Returned(ref) = 1

\* C2: fetch returns each scheduled ticketRef at most once over all calls.
C2_ReturnedOnce ==
    \A ref \in DOMAIN returned : returned[ref] <= 1

\* C3: when fetch(t) returns, every ticketRef scheduled with regTime <= t has
\* been returned by this call or by an earlier one.
C3_FetchComplete ==
    fetched
    => \A ref \in scheduled : RegTimeOf(ref) <= clock => Returned(ref) >= 1

\* fetch has returned a due slot of a ticket and left a later slot scheduled.
C3_Witness ==
    \E ref, other \in scheduled :
        /\ Returned(ref) >= 1
        /\ Returned(other) = 0
        /\ RegTimeOf(other) > clock

\* C4: a ticket stays in the nodes index for as long as one of its scheduled
\* slots has not been returned by fetch.
C4_HeldWhileOutstanding ==
    \A k \in TicketIds : Outstanding(k) # {} => Indexed(k)

\* C5: after a fetch(t) with t at or past every regTime of a ticket's
\* scheduled slots the ticket has left the index and its refCnt is 0.
C5_Evicted ==
    fetched
    => \A k \in TicketIds :
          (SlotsOf(k) # {} /\ \A ref \in SlotsOf(k) : RegTimeOf(ref) <= clock)
          => (~Indexed(k) /\ tickets[k].refCnt = 0)

\* C6: add for a node whose ticket is held changes nothing in the store and
\* leaves the refCnt of the ticket passed at 0.
C6_DuplicateNoOp ==
    [][(AddStep /\ nodes[NewTicket.node] # NoTicket)
       => /\ UNCHANGED store
          /\ NewTicket.refCnt = 0
          /\ \A k \in TicketIds : tickets'[k] = tickets[k]]_vars

\* A ticket was passed to add while an earlier ticket of its node was held
\* (and still is).
C6_Witness ==
    \E j, k \in TicketIds :
        /\ j < k
        /\ tickets[j].node = tickets[k].node
        /\ Indexed(j) /\ tickets[j].refCnt > 0
        /\ tickets[k].refCnt = 0
        /\ \E t \in Topics : topics[t].tracked /\ topics[t].converged

\* C7: the ticket stored for a node is never replaced by add; an entry
\* changes only by fetch removing it.
C7_NeverReplaced ==
    [][\A n \in Nodes :
          (nodes[n] # NoTicket /\ nodes'[n] # nodes[n])
          => (nodes'[n] = NoTicket /\ fetched')]_vars

\* A node's second ticket is held after fetch removed its first one.
C7_Witness ==
    \E j, k \in TicketIds :
        /\ j < k
        /\ tickets[j].node = tickets[k].node
        /\ SlotsOf(j) # {} /\ ~Indexed(j)
        /\ Indexed(k)

\* C8: immediately after fetch(t) no topic's time map holds a bucket older
\* than t / ticketGroupTime.
C8_BucketGC ==
    fetched
    => \A t \in Topics :
          topics[t].tracked
          => \A g \in DOMAIN topics[t].time : g >= clock \div ticketGroupTime

\* fetch has deleted the bucket of a slot it returned, and kept a later one.
C8_Witness ==
    \E ref \in DOMAIN returned :
        /\ RegTimeOf(ref) \div ticketGroupTime < lastGroupFetched
        /\ RegTimeOf(ref) \div ticketGroupTime \notin DOMAIN topics[TopicOf(ref)].time
        /\ DOMAIN topics[TopicOf(ref)].time # {}

\* C9: a topic starts unconverged, and once converged it stays converged
\* through every add, fetch, adjustMinRadius and addTopic.
C9_ConvergedMonotonic ==
    [][\A t \in Topics :
          /\ (topics[t].tracked /\ topics[t].converged)
             => (topics'[t].tracked /\ topics'[t].converged)
          /\ (~topics[t].tracked /\ topics'[t].tracked)
             => ~topics'[t].converged]_vars

\* A converged topic has been adjusted by two tickets it keeps, after an
\* adjustMinRadius call and a fetch that returned a slot.
C9_Witness ==
    \E t \in Topics :
        /\ topics[t].tracked /\ topics[t].converged
        /\ Cardinality({ref \in scheduled : TopicOf(ref) = t}) >= 2
        /\ minRadCnt > 0
        /\ returned # <<>>

\* C10: after every adjust step the topic's radius is at least the minRadius
\* the step was given.
C10_RadiusFloor ==
    [][\A t \in Topics : ObserveOn(t) => topics'[t].radius >= minRadius]_vars

\* A shrinking step has ended on the floor.
C10_Witness ==
    /\ nObs > 1
    /\ minRadius > 0
    /\ topics["A"].radius = minRadius
    /\ ~topics["A"].converged

Pending(ref) == ref \in scheduled /\ Returned(ref) = 0
InBucket(ref) ==
    \E j \in DOMAIN Bucket(topics[TopicOf(ref)].time,
                           RegTimeOf(ref) \div ticketGroupTime) :
        Bucket(topics[TopicOf(ref)].time, RegTimeOf(ref) \div ticketGroupTime)[j] = ref

\* C12: a fetch(localTime) step returns exactly one entry for every scheduled,
\* not yet returned ticketRef with regTime <= localTime and none for any other
\* ref; the refs not yet due stay in their buckets.
C12_FetchResult ==
    [][fetched'
       => \A ref \in scheduled :
             IF Pending(ref) /\ RegTimeOf(ref) <= clock'
             THEN Returned(ref)' = Returned(ref) + 1
             ELSE /\ Returned(ref)' = Returned(ref)
                  /\ Pending(ref) => InBucket(ref)']_vars

\* One ticket has had two of its slots returned, a third ref is still to come.
C12_Witness ==
    \E k \in TicketIds :
        /\ Cardinality({ref \in SlotsOf(k) : Returned(ref) >= 1}) = 2
        /\ \E ref \in scheduled : Pending(ref) /\ InBucket(ref)

\* C13: the wait periods of the pong that ticketToPong builds from a ticket
\* equal the wait periods of the pong pongToTicket built the ticket from.
C13_PongRoundTrip ==
    \A k \in TicketIds : ticketToPong(tickets[k]).WaitPeriods = tickets[k].pong

\* A ticket built at a local time past the first second from a pong with two
\* different wait periods.
C13_Witness ==
    \E k \in TicketIds :
        /\ tickets[k].issueTime >= Second
        /\ tickets[k].pong[1] # tickets[k].pong[2]
        /\ Len(ticketToPong(tickets[k]).WaitPeriods) = 2

\* C14: a pongToTicket step yields a new ticket with issueTime = localTime,
\* refCnt = 0, the node and topics given and regTime[i] = localTime +
\* waitPeriod[i] seconds, and changes neither the store nor an earlier ticket.
C14_PongToTicket ==
    [][PongToTicket
       => LET t == tickets'[Len(tickets')]
          IN  /\ t.issueTime = clock'
              /\ t.refCnt = 0
              /\ t.node \in Nodes /\ t.topics = <<"A", "B">>
              /\ Len(t.regTime) = Len(t.pong)
              /\ \A i \in 1..Len(t.pong) : t.regTime[i] = clock' + t.pong[i] * Second
              /\ \A k \in TicketIds : tickets'[k] = tickets[k]
              /\ UNCHANGED store]_vars

\* A ticket built in the middle of a second, for two different wait periods.
C14_Witness ==
    \E k \in TicketIds :
        /\ tickets[k].issueTime % Second # 0
        /\ tickets[k].regTime[1] > tickets[k].issueTime
        /\ tickets[k].regTime[2] > tickets[k].regTime[1]

\* C15 as stated: after n >= 1 adjustMinRadius calls with the same distance d
\* minRadius equals min(16 * d, maxRadius / 2).
C15_MinRadiusStated ==
    minRadCnt >= 1
    => minRadius = (IF 16 * lastDist < maxRadius \div 2
                    THEN 16 * lastDist ELSE maxRadius \div 2)

\* C15, amended: after n >= 1 adjustMinRadius calls with the same distance d
\* minRadius equals 16 * d if that is at most maxRadius / 2, and
\* maxRadius / 2 + 1 (the float64 the cap is rounded to) otherwise.
C15_MinRadiusConstant ==
    minRadCnt >= 1
    => minRadius = (IF 16 * lastDist <= maxRadius \div 2
                    THEN 16 * lastDist ELSE maxRadius \div 2 + 1)

\* The sample count has reached minRadAverage for a distance below the cap.
C15_Witness ==
    /\ minRadCnt = minRadAverage
    /\ lastDist > 0
    /\ minRadius = 16 * lastDist
    /\ minRadSum = minRadAverage * Fix(minRadius)

LateDelays == {0, Second, 2 * Second}

AddLate ==
    \E p \in Pongs, step \in TimeSteps, delay \in LateDelays, ovf \in Uint64OfTwoTo64 :
    \E rnds \in [1..Len(p.topics) -> RndValues] :
        /\ Len(tickets) < MaxTickets
        /\ clock + step + delay <= MaxTime
        /\ clock' = clock + step + delay
        /\ add(Len(tickets) + 1,
               pongToTicket(clock + step, p.topics, p.node, p.wps),
               clock + step + delay, rnds, ovf)
        /\ fetched' = FALSE
        /\ UNCHANGED <<minRadSum, minRadCnt, minRadius, returned, nObs, lastDist>>

NextLate ==
    \/ AddTopic
    \/ AddLate

SpecLate == Init /\ [][NextLate]_vars

\* ------------------------------------------------------ add for a far peer
\* n3 is at distance maxRadius from topic A, on the edge of a fresh topic's
\* radius, and inside the radius of topic B.
FarPongs ==
    { [node |-> "n3", topics |-> <<"A">>, wps |-> <<1>>],
      [node |-> "n3", topics |-> <<"A", "B">>, wps |-> <<1, targetWaitTime \div Second>>] }

AddFar ==
    \E p \in Pongs \cup FarPongs, step \in TimeSteps, ovf \in Uint64OfTwoTo64 :
    \E rnds \in [1..Len(p.topics) -> RndValues] :
        /\ Len(tickets) < MaxTickets
        /\ clock + step <= MaxTime
        /\ clock' = clock + step
        /\ add(Len(tickets) + 1,
               pongToTicket(clock + step, p.topics, p.node, p.wps),
               clock + step, rnds, ovf)
        /\ fetched' = FALSE
        /\ UNCHANGED <<minRadSum, minRadCnt, minRadius, returned, nObs, lastDist>>

NextFar ==
    \/ AddTopic
    \/ AddFar

SpecFar == Init /\ [][NextFar]_vars

\* ------------------------------------------------ minRadius past the cap
\* adjustMinRadius with one distance until the sample count has reached
\* minRadAverage, then with any distances for MaxDecay more calls.
AdjustMixed ==
    \E dist \in Dists :
        /\ IF minRadCnt < minRadAverage
           THEN lastDist \in {NoDist, dist} /\ nObs' = nObs
           ELSE nObs < MaxDecay /\ nObs' = nObs + 1
        /\ adjustMinRadius(dist)
        /\ lastDist' = dist
        /\ fetched' = FALSE
        /\ UNCHANGED <<tickets, topics, nodes, lastGroupFetched, clock,
                       scheduled, returned>>

NextDecay == AdjustMixed

SpecDecay == Init /\ [][NextDecay]_vars

\* ------------------------------------------- minRadius, any distances
\* adjustMinRadius with any distances for the first MaxDecay calls, or with
\* one distance until the sample count has reached minRadAverage and then
\* with any distances for MaxDecay more calls.
AdjustAny ==
    \E dist \in Dists :
        /\ IF minRadCnt < minRadAverage
           THEN \/ nObs = 0 /\ lastDist \in {NoDist, dist} /\ nObs' = nObs
                \/ nObs = minRadCnt /\ nObs < MaxDecay /\ nObs' = nObs + 1
           ELSE nObs < MaxDecay /\ nObs' = nObs + 1
        /\ adjustMinRadius(dist)
        /\ lastDist' = dist
        /\ fetched' = FALSE
        /\ UNCHANGED <<tickets, topics, nodes, lastGroupFetched, clock,
                       scheduled, returned>>

NextAny == AdjustAny

SpecAny == Init /\ [][NextAny]_vars

\* ------------------------------------------------------ a shrinking radius
\* Adjust steps for a peer at distance 1 whose waits are all well below
\* targetWaitTime, with minRadius 0.
ShortWaits == {1, targetWaitTime \div 2 + 1}

ObserveShort ==
    \E wait \in ShortWaits, ovf \in Uint64OfTwoTo64 :
        /\ topics["A"].tracked
        /\ isInRadius(topics["A"], "A", "n1")
        /\ topics' = [topics EXCEPT
                        !["A"] = adjust(topics["A"], clock, clock + wait, minRadius, ovf)]
        /\ fetched' = FALSE
        /\ UNCHANGED <<tickets, nodes, lastGroupFetched, minRadSum, minRadCnt,
                       minRadius, clock, scheduled, returned, nObs, lastDist>>

NextShrink == ObserveShort

SpecShrink == InitRadius /\ [][NextShrink]_vars

\* ------------------------------------------- pongs of any number of waits
\* pongToTicket takes the topics asked for and the pong received as two
\* parameters; the pong's list of wait periods has the length its sender
\* gave it.
AnyTopics == {<<"A">>, <<"A", "B">>}
AnyWaits == UNION {[1..n -> {1, 2}] : n \in 0..2}

PongToTicketAny ==
    \E localTime \in PongTimes, tps \in AnyTopics, wps \in AnyWaits :
        /\ Len(tickets) < MaxTickets
        /\ localTime >= clock
        /\ clock' = localTime
        /\ tickets' = Append(tickets, pongToTicket(localTime, tps, "n1", wps))
        /\ fetched' = FALSE
        /\ UNCHANGED <<topics, nodes, lastGroupFetched, minRadSum, minRadCnt,
                       minRadius, scheduled, returned, nObs, lastDist>>

NextPongAny == PongToTicketAny

SpecPongAny == Init /\ [][NextPongAny]_vars

\* The learning rate of an adjust step on topicTickets r is 1 / RateDen(r).
RateDen(r) == IF r.converged THEN 100 ELSE 10
Abs(x) == IF x < 0 THEN 0 - x ELSE x

\* C17 as stated: an adjust step changes the radius by at most 1% of the
\* radius before the step if the topic was converged, and by at most 10% if
\* it was not.
C17_StepStated ==
    [][\A t \in Topics :
          ObserveOn(t)
          => RateDen(topics[t]) * Abs(topics'[t].radius - topics[t].radius)
                <= topics[t].radius]_vars

\* C17, amended: an adjust step leaves the radius within 1% (topic converged
\* before the step) or 10% (not converged) of float64(radius before the step),
\* cut down to an integer, unless the result is raised to minRadius or the
\* proposed radius reaches float64(maxRadius) without exceeding it, where the
\* conversion to uint64 is implementation-dependent.
C17_StepBounded ==
    [][\A t \in Topics :
          ObserveOn(t)
          => LET F == ToFloat64(topics[t].radius)
                 new == topics'[t].radius
                 den == RateDen(topics[t])
             IN  \/ den * Abs(new - F) <= F + den
                 \/ new = minRadius
                 \/ /\ new \in Uint64OfTwoTo64
                    /\ (F * (den + 1)) \div den > maxRadius]_vars

\* A converged topic has moved off the ceiling and off the floor by small
\* steps.
C17_Witness ==
    /\ topics["A"].converged
    /\ nObs > 3
    /\ topics["A"].radius > minRadius
    /\ topics["A"].radius < 2^(RadiusBits - 1)

\* The refs of topic t scheduled by add, not yet returned by fetch, whose
\* bucket lies in the window of timeWindow buckets starting at the bucket of
\* time now.
PendingInWindow(t, now) ==
    {ref \in scheduled :
        /\ Pending(ref)
        /\ TopicOf(ref) = t
        /\ RegTimeOf(ref) \div ticketGroupTime >= now \div ticketGroupTime
        /\ RegTimeOf(ref) \div ticketGroupTime < now \div ticketGroupTime + timeWindow}

\* C18: ticketsInWindow(topic) is the number of ticketRefs scheduled for the
\* topic by add and not yet returned by fetch in the timeWindow buckets
\* starting at the bucket of the current time.
C18_WindowCount ==
    \A t \in Topics :
        topics[t].tracked
        => ticketsInWindow(t, clock) = Cardinality(PendingInWindow(t, clock))

\* ticketsInWindow counts two pending refs of a topic after fetch has returned
\* another ref.
C18_Witness ==
    /\ returned # <<>>
    /\ \E t \in Topics :
          /\ topics[t].tracked
          /\ ticketsInWindow(t, clock) >= 2
          /\ ticketsInWindow(t, clock) = Cardinality(PendingInWindow(t, clock))

\* The slots add has scheduled in the step, and the wait of slot ref of the
\* ticket passed: regTime[i] - localTime.
NewSlots == scheduled' \ scheduled
WaitOf(ref) == (NewTicket.regTime[ref[2]] - clock') % TimeMod
NewTopicOf(ref) == NewTicket.topics[ref[2]]

\* C19: add schedules a ticketRef for a slot only if the topic is tracked, the
\* peer is in the topic's radius before the adjustment, the topic is converged
\* after the adjustment and has time buckets, and the slot's wait is below
\* keepTicketConst + 10 * keepTicketExp; and in every reachable state a topic
\* that holds a ticketRef in a bucket is converged and registration-enabled.
C19_ScheduleOnlyIf ==
    /\ [][AddStep
          => \A ref \in NewSlots :
                /\ ref[1] = Len(tickets')
                /\ topics[NewTopicOf(ref)].tracked
                /\ isInRadius(topics[NewTopicOf(ref)], NewTopicOf(ref), NewTicket.node)
                /\ topics'[NewTopicOf(ref)].converged
                /\ topics'[NewTopicOf(ref)].register
                /\ WaitOf(ref) < keepTicketConst + 10 * keepTicketExp]_vars
    /\ [](\A t \in Topics :
             (topics[t].tracked /\ \E g \in DOMAIN topics[t].time : topics[t].time[g] # <<>>)
             => (topics[t].converged /\ topics[t].register))

\* add was passed a slot waiting exactly keepTicketConst + 10 * keepTicketExp
\* for a converged, registration-enabled topic with the peer in radius, and
\* did not schedule it, while a slot above keepTicketConst is scheduled.
C19_Witness ==
    /\ \E k \in TicketIds :
          /\ Len(tickets[k].topics) = 1
          /\ tickets[k].regTime[1] - tickets[k].issueTime = keepTicketConst + 10 * keepTicketExp
          /\ <<k, 1>> \notin scheduled
          /\ topics["B"].tracked /\ topics["B"].converged /\ topics["B"].register
          /\ isInRadius(topics["B"], "B", tickets[k].node)
    /\ \E ref \in scheduled : RegTimeOf(ref) - tickets[ref[1]].issueTime > keepTicketConst

\* regTime[i] - localTime of slot i of the ticket passed to add, as a
\* difference of the two times.
DiffOf(i) == NewTicket.regTime[i] - clock'

\* C20: in an add call that reaches the slots, a slot of a tracked,
\* registration-enabled topic that has the peer in radius and is converged
\* after the call's adjust is scheduled and counted in refCnt whenever
\* regTime[i] - localTime is below keepTicketConst, whatever the random
\* variate is.
C20_ShortWaitKept ==
    [][(AddStep /\ nodes[NewTicket.node] = NoTicket)
       => /\ NewTicket.refCnt = Cardinality(NewSlots)
          /\ \A i \in 1..Len(NewTicket.topics) :
                (/\ topics[NewTicket.topics[i]].tracked
                 /\ isInRadius(topics[NewTicket.topics[i]], NewTicket.topics[i], NewTicket.node)
                 /\ topics'[NewTicket.topics[i]].converged
                 /\ topics'[NewTicket.topics[i]].register
                 /\ DiffOf(i) < keepTicketConst)
                => <<Len(tickets'), i>> \in NewSlots]_vars

\* A ticket's slot with a wait below keepTicketConst is scheduled in the same
\* add call that dropped its other slot, whose wait is above keepTicketConst.
C20_Witness ==
    \E k \in TicketIds :
        /\ Len(tickets[k].topics) = 2
        /\ <<k, 1>> \in scheduled
        /\ tickets[k].regTime[1] - tickets[k].issueTime < keepTicketConst
        /\ <<k, 2>> \notin scheduled
        /\ tickets[k].regTime[2] - tickets[k].issueTime > keepTicketConst
        /\ tickets[k].refCnt = 1
        /\ topics["A"].tracked /\ topics["A"].converged /\ topics["A"].register

\* The slots of the ticket passed to add that get an adjust step: the topic is
\* tracked and has the peer in radius (the topics of a pong are distinct).
AdjustedSlots ==
    {i \in 1..Len(NewTicket.topics) :
        /\ topics[NewTicket.topics[i]].tracked
        /\ isInRadius(topics[NewTicket.topics[i]], NewTicket.topics[i], NewTicket.node)}
Min(a, b) == IF a < b THEN a ELSE b

\* C21: an adjust step moves the radius in the direction of the wait error,
\* for every regTime and localTime: if regTime[i] - localTime is below
\* targetWaitTime the radius proposed (and stored, unless raised to minRadius)
\* is not above float64(radius before), and if it is above targetWaitTime the
\* radius is not below it (up to the ceiling).
C21_Direction ==
    [][(AddStep /\ nodes[NewTicket.node] = NoTicket)
       => \A i \in AdjustedSlots :
             LET tp == NewTicket.topics[i]
                 F == ToFloat64(topics[tp].radius)
             IN  /\ DiffOf(i) < targetWaitTime
                    => (topics'[tp].radius <= F \/ topics'[tp].radius = minRadius)
                 /\ DiffOf(i) > targetWaitTime
                    => topics'[tp].radius >= Min(F, maxRadius)]_vars

\* A wait below targetWaitTime has shrunk the radius of an unconverged topic
\* by less than the full rate, and no slot passed to add was overdue.
C21_Witness ==
    \E t \in Topics :
        /\ topics[t].tracked
        /\ topics[t].radius < maxRadius
        /\ topics[t].radius > ToFloat64(maxRadius) - ToFloat64(maxRadius) \div 10
        /\ ~topics[t].converged
        /\ \A k \in TicketIds : \A i \in 1..Len(tickets[k].topics) :
              tickets[k].regTime[i] >= clock

\* C22: an adjust step on an unconverged topic declares it converged exactly
\* if the radius it has stored (after the ceiling pin and the minRadius floor)
\* is at least filteredRadius; otherwise filteredRadius moves 5% of the way
\* toward the stored radius. The stored radius is an integer, so both are
\* taken up to one unit of radius.
C22_ConvergenceTest ==
    [][\A t \in Topics :
          (ObserveOn(t) /\ ~topics[t].converged)
          => LET new == topics'[t].radius
                 f == topics[t].filteredRadius
             IN  /\ topics'[t].converged => Fix(new + 1) >= f
                 /\ ~topics'[t].converged
                    => /\ Fix(new) < f
                       /\ Abs(topics'[t].filteredRadius
                                - (f + (((Fix(new) - f) * 5) \div 100))) <= 2]_vars

\* An unconverged topic sits on the minRadius floor with filteredRadius still
\* above it, after an adjust step that was given that floor.
C22_Witness ==
    /\ minRadius > 0
    /\ nObs > 1
    /\ ~topics["A"].converged
    /\ topics["A"].radius = minRadius
    /\ topics["A"].filteredRadius > Fix(ToFloat64(minRadius))
    /\ topics["A"].filteredRadius < Fix(ToFloat64(maxRadius))

\* The places <<topic, bucket, position>> of the topics' time maps that hold
\* a ticketRef of ticket k.
HeldRefs(k) ==
    {pl \in UNION {UNION {{<<t, g, n>> : n \in 1..Len(topics[t].time[g])}
                            : g \in DOMAIN topics[t].time}
                     : t \in {u \in Topics : topics[u].tracked}} :
        topics[pl[1]].time[pl[2]][pl[3]][1] = k}

\* C23: in every reachable state each ticket's refCnt is the number of
\* ticketRefs to it held in the topics' buckets, and it is never negative.
C23_RefCntExact ==
    \A k \in TicketIds :
        /\ tickets[k].refCnt = Cardinality(HeldRefs(k))
        /\ tickets[k].refCnt >= 0

\* A ticket with two slots in buckets has refCnt 2 after fetch has returned a
\* slot of another ticket.
C23_Witness ==
    /\ returned # <<>>
    /\ \E k \in TicketIds :
          /\ tickets[k].refCnt = 2
          /\ Cardinality(HeldRefs(k)) = 2

\* The tickets that have a ticketRef in one of the topics' buckets.
HeldTickets == {k \in TicketIds : HeldRefs(k) # {}}

\* C24: in every reachable state the ticketRefs held in the topics' buckets
\* that belong to tickets of one NodeID belong to one ticket, the one stored
\* in nodes for that NodeID.
C24_OneTicketPerNode ==
    \A k \in HeldTickets : nodes[tickets[k].node] = k

\* The buckets hold refs of one ticket of each of two nodes, both indexed,
\* after fetch has returned a slot.
C24_Witness ==
    /\ returned # <<>>
    /\ \E j, k \in HeldTickets :
          /\ tickets[j].node # tickets[k].node
          /\ nodes[tickets[j].node] = j
          /\ nodes[tickets[k].node] = k

\* C25: every ticketRef held in bucket g of a topic's time map has
\* regTime[topicIndex] / ticketGroupTime = g, in every reachable state.
C25_BucketOfRegTime ==
    \A t \in Topics :
        topics[t].tracked
        => \A g \in DOMAIN topics[t].time :
              \A n \in 1..Len(topics[t].time[g]) :
                 RegTimeOf(topics[t].time[g][n]) \div ticketGroupTime = g

\* A topic holds refs in two buckets after fetch has returned a slot and
\* deleted a bucket.
C25_Witness ==
    /\ \E ref \in DOMAIN returned :
          RegTimeOf(ref) \div ticketGroupTime \notin DOMAIN topics[TopicOf(ref)].time
    /\ \E t \in Topics :
          /\ topics[t].tracked
          /\ \E g, h \in DOMAIN topics[t].time :
                g # h /\ topics[t].time[g] # <<>> /\ topics[t].time[h] # <<>>

\* C26: every bucket that holds a ticketRef has an index of at least
\* lastGroupFetched, so the scan of fetch from lastGroupFetched skips no ref;
\* fetch(t) sets lastGroupFetched to t / ticketGroupTime and add sets it, to
\* localTime / ticketGroupTime, only while it is 0.  The local times of the
\* calls never decrease.
C26_NoBucketBehind ==
    /\ [](\A t \in Topics :
             topics[t].tracked
             => \A g \in DOMAIN topics[t].time :
                   topics[t].time[g] # <<>> => g >= lastGroupFetched)
    /\ [][/\ clock' >= clock
          /\ fetched' => lastGroupFetched' = clock' \div ticketGroupTime
          /\ AddStep
             => lastGroupFetched' =
                   IF lastGroupFetched = 0 /\ nodes[NewTicket.node] = NoTicket
                   THEN clock' \div ticketGroupTime
                   ELSE lastGroupFetched]_vars

\* fetch has moved lastGroupFetched forward to a bucket that holds a slot not
\* yet due, and deleted the bucket of a slot it returned.
C26_Witness ==
    /\ lastGroupFetched > 0
    /\ \E ref \in DOMAIN returned :
          RegTimeOf(ref) \div ticketGroupTime \notin DOMAIN topics[TopicOf(ref)].time
    /\ \E ref \in scheduled :
          /\ Returned(ref) = 0
          /\ RegTimeOf(ref) > clock
          /\ RegTimeOf(ref) \div ticketGroupTime = lastGroupFetched

\* A topic's state without its time map.
Control(r) == [r EXCEPT !.time = <<>>]

\* C27: an add call for a peer with no ticket held applies exactly one adjust
\* step to the topic of each slot that is tracked and has the peer in radius,
\* whatever the topic's converged and register flags are and whether or not
\* the slot is kept; the other topics keep their state.
C27_AdjustEverySlot ==
    [][(AddStep /\ nodes[NewTicket.node] = NoTicket)
       => /\ \A i \in AdjustedSlots :
                \E ovf \in Uint64OfTwoTo64 :
                   Control(topics'[NewTicket.topics[i]])
                      = Control(adjust(topics[NewTicket.topics[i]], clock',
                                       NewTicket.regTime[i], minRadius, ovf))
          /\ \A t \in Topics \ {NewTicket.topics[i] : i \in AdjustedSlots} :
                topics'[t] = topics[t]]_vars

\* A ticket that add has discarded has moved the radius of a topic that has
\* no registration and is not converged.
C27_Witness ==
    \E k \in TicketIds : \E i \in 1..Len(tickets[k].topics) :
        /\ tickets[k].refCnt = 0
        /\ nodes[tickets[k].node] = NoTicket
        /\ Len(tickets) = 1
        /\ topics[tickets[k].topics[i]].tracked
        /\ ~topics[tickets[k].topics[i]].register
        /\ ~topics[tickets[k].topics[i]].converged
        /\ topics[tickets[k].topics[i]].radius < maxRadius

\* Slot i of the ticket passed to add is skipped: its topic is not tracked, or
\* the XOR distance of the prefixes is not below the topic's radius.
Skipped(i) ==
    \/ ~topics[NewTicket.topics[i]].tracked
    \/ Xor(NodePrefix[NewTicket.node], TopicHash[NewTicket.topics[i]])
          >= topics[NewTicket.topics[i]].radius

\* C28: add of a ticket whose every slot is untracked or has the peer at a
\* distance of at least the topic's radius leaves every topic's radius,
\* filteredRadius, converged flag and buckets and the nodes index unchanged,
\* and the ticket's refCnt at 0.
C28_SkippedTicket ==
    [][(AddStep /\ \A i \in 1..Len(NewTicket.topics) : Skipped(i))
       => /\ topics' = topics
          /\ nodes' = nodes
          /\ NewTicket.refCnt = 0
          /\ scheduled' = scheduled]_vars

\* add has discarded a ticket of the peer at distance maxRadius from a
\* tracked topic whose radius is maxRadius.
C28_Witness ==
    \E k \in TicketIds :
        /\ tickets[k].node = "n3"
        /\ tickets[k].topics = <<"A">>
        /\ tickets[k].refCnt = 0
        /\ topics["A"].tracked
        /\ topics["A"].radius = maxRadius
        /\ Xor(NodePrefix["n3"], TopicHash["A"]) = maxRadius

\* C29 as stated: in every reachable state every tracked topic's radius is at
\* least the store's current minRadius.
C29_FloorAlways ==
    \A t \in Topics : topics[t].tracked => topics[t].radius >= minRadius

\* C29, amended: a tracked topic's radius is below minRadius after a step only
\* if the step has left the radius alone and either has raised minRadius
\* (an adjustMinRadius call) or found the radius below minRadius already; no
\* adjust step ends below the floor.
C29_FloorUntilRaised ==
    [][\A t \in Topics :
          (topics[t].tracked /\ topics'[t].tracked
             /\ topics'[t].radius < minRadius')
          => /\ topics'[t].radius = topics[t].radius
             /\ ~ObserveOn(t)
             /\ (minRadius' > minRadius \/ topics[t].radius < minRadius)]_vars

\* adjustMinRadius has raised minRadius above the radius of a topic that
\* adjust steps had shrunk.
C29_Witness ==
    /\ nObs > 0
    /\ minRadCnt > 0
    /\ topics["A"].tracked
    /\ topics["A"].radius < minRadius

\* The running sum adjustMinRadius adds the next sample to.
DecayedSum ==
    IF minRadCnt < minRadAverage
    THEN minRadSum
    ELSE minRadSum - (minRadSum \div minRadAverage)

\* The step is an adjustMinRadius call that adds sample (a float64).
AverageStep(sample) ==
    /\ minRadCnt' <= minRadAverage
    /\ minRadCnt' = IF minRadCnt < minRadAverage THEN minRadCnt + 1 ELSE minRadCnt
    /\ minRadSum' = DecayedSum + sample
    /\ minRadius' = minRadSum' \div (minRadCnt' * FixScale)
    /\ UNCHANGED <<tickets, topics, nodes, lastGroupFetched, scheduled>>

\* C30 as stated: each adjustMinRadius call adds the sample
\* min(16 * dist, maxRadius / 2) to minRadSum, after incrementing minRadCnt
\* while it is below 1024 and otherwise after subtracting minRadSum / 1024;
\* minRadCnt never exceeds 1024; afterwards minRadius is
\* floor(minRadSum / minRadCnt); nothing else in the store changes.
C30_AverageStated ==
    [][AdjustMixed
       => AverageStep(Fix(Min(16 * lastDist', maxRadius \div 2)))]_vars

\* C30, amended: the sample is 16 * float64(dist), capped at the float64
\* that maxRadius / 2 is rounded to, which is maxRadius / 2 + 1.
C30_Average ==
    [][AdjustMixed
       => AverageStep(Min(16 * Fix(ToFloat64(lastDist')),
                          Fix(maxRadius \div 2 + 1)))]_vars

\* A smaller distance has pulled the average down from the capped value
\* after the sample count had reached minRadAverage.
C30_Witness ==
    /\ minRadCnt = minRadAverage
    /\ nObs = MaxDecay
    /\ minRadius < maxRadius \div 2 + 1
    /\ minRadius >= maxRadius \div 2
    /\ 16 * lastDist < maxRadius \div 2

\* C31 as stated: after any sequence of adjustMinRadius calls minRadius is at
\* most maxRadius / 2.
C31_MinRadiusCapStated == minRadius <= maxRadius \div 2

\* C31, amended: after any sequence of adjustMinRadius calls minRadius is at
\* most maxRadius / 2 + 1, the float64 the per-sample cap is rounded to.
C31_MinRadiusCap == minRadius <= maxRadius \div 2 + 1

\* The average sits on the cap after calls with different distances, all of
\* them capped, past the sample cap.
C31_Witness ==
    /\ minRadCnt = minRadAverage
    /\ nObs = MaxDecay
    /\ lastDist # maxRadius
    /\ minRadius = maxRadius \div 2 + 1

\* C32: no sequence of adjust steps made by add drives a tracked topic's
\* radius below 2, even when minRadius is 0.
C32_RadiusAtLeastTwo ==
    \A t \in Topics : topics[t].tracked => topics[t].radius >= 2

\* Adjust steps have shrunk the radius of a topic to 2 with minRadius 0; the
\* peer at distance 1 is still in radius.
C32_Witness ==
    /\ minRadius = 0
    /\ topics["A"].tracked
    /\ topics["A"].radius = 2
    /\ isInRadius(topics["A"], "A", "n1")

\* C33: for every tracked topic in every reachable state, nextTarget returns a
\* hash whose leading 64 bits XORed with the topic's hash prefix give an even
\* value below the topic's radius, and whose other bytes are zero.
C33_TargetInRadius ==
    \A t \in Topics :
        topics[t].tracked
        => \A target \in nextTargets(topics[t], t) :
              /\ target # Panic
              /\ Xor(target[1], TopicHash[t]) % 2 = 0
              /\ Xor(target[1], TopicHash[t]) < topics[t].radius
              /\ target[2] = 0

\* The radius of a topic has shrunk to an odd value whose half nextTarget can
\* still draw from.
C33_Witness ==
    /\ topics["A"].tracked
    /\ topics["A"].radius = 3
    /\ nextTargets(topics["A"], "A") = {<<TopicHash["A"], 0>>}

\* C34: fetch changes no topic's radius, filteredRadius or converged flag and
\* nothing of the minRadius average; a tracked topic without a bucket map
\* contributes no ticket and gets no bucket map; and a fetch on a store with
\* no scheduled ref (none that add has scheduled and fetch has not returned)
\* returns nothing and changes lastGroupFetched only.
C34_FetchFrame ==
    [][fetched'
       => /\ \A t \in Topics :
                /\ topics'[t].tracked = topics[t].tracked
                /\ topics[t].tracked => Control(topics'[t]) = Control(topics[t])
                /\ (topics[t].tracked /\ ~topics[t].register)
                   => /\ topics'[t].time = <<>>
                      /\ \A ref \in scheduled :
                            TopicOf(ref) = t => Returned(ref)' = Returned(ref)
          /\ UNCHANGED <<minRadSum, minRadCnt, minRadius>>
          /\ (\A ref \in scheduled : ~Pending(ref))
             => UNCHANGED <<returned, tickets, nodes, topics>>]_vars

\* fetch has run on a store that tracks a topic without a bucket map and a
\* topic with one, and has returned a slot of the latter.
C34_Witness ==
    /\ fetched
    /\ returned # <<>>
    /\ \E t \in Topics : topics[t].tracked /\ ~topics[t].register
    /\ \E t \in Topics : topics[t].tracked /\ topics[t].register /\ topics[t].radius < maxRadius

C36_RegTimePerTopic ==
    \A k \in TicketIds : Len(tickets[k].topics) = Len(tickets[k].regTime)

\* pongToTicket has built a ticket for two topics from a pong with two wait
\* periods.
C36_Witness ==
    \E k \in TicketIds :
        /\ Len(tickets[k].topics) = 2
        /\ Len(tickets[k].regTime) = 2
        /\ tickets[k].regTime[1] # tickets[k].regTime[2]

====
